---- MODULE Spec2Model ----
(***************************************************************************)
(* Model of qutebrowser/misc/lineparser.py: LineParser and LimitLineParser *)
(* (a line-based store backed by one file, saved through                   *)
(* qtutils.savefile_open, with an optional retention limit read from the   *)
(* config).                                                                *)
(*                                                                         *)
(* A file content is a sequence of characters; a record (one line of       *)
(* self.data) is a sequence of characters too.  "LF" is '\n' and "CR" is   *)
(* '\r'.  The file on disk is <<>> when the path does not exist and        *)
(* <<content>> when it does; the same wrapping holds an optional integer.  *)
(***************************************************************************)
EXTENDS Integers, Sequences, FiniteSets

\* ---------------------------------------------------------------- bounds
\* Longest self.data the caller builds by appending.
MaxLines == 3
\* Longest content of the file found on disk at construction.
MaxFileLen == 1
\* Largest positive limit the config holds.
MaxLimit == 2

\* ------------------------------------------------------------ vocabulary
LF == "LF"
CR == "CR"
\* Characters of file contents.
Chars == {"a", CR, LF}
\* Records the caller appends: they hold no line terminator.
Records == {<<>>, <<"a">>, <<CR>>}
\* Values config.get(section, option) returns for the limit option: the
\* naturals up to MaxLimit, and one negative value.
LimitValues == {-1} \cup 0..MaxLimit
\* (section, option) keys the config announces changes of.
Keys == {"K", "J"}
\* limit=None of LimitLineParser.__init__.
None == "None"

Absent == <<>>
Present(c) == <<c>>
Content(f) == f[1]

Min(a, b) == IF a < b THEN a ELSE b
Max(a, b) == IF a > b THEN a ELSE b

\* All sequences over S of length at most n.
RECURSIVE SeqsUpTo(_, _)
SeqsUpTo(S, n) ==
  IF n = 0 THEN {<<>>}
  ELSE LET shorter == SeqsUpTo(S, n - 1)
       IN shorter \cup {Append(s, c) : s \in {t \in shorter : Len(t) = n - 1}, c \in S}

\* ------------------------------------------------------- pure functions
\* Every record followed by '\n', the last one too.
RECURSIVE JoinTerminated(_)
JoinTerminated(d) ==
  IF Len(d) = 0 THEN <<>> ELSE d[1] \o <<LF>> \o JoinTerminated(Tail(d))

\* '\n'.join(data)
RECURSIVE Join(_)
Join(d) ==
  IF Len(d) = 0 THEN <<>>
  ELSE IF Len(d) = 1 THEN d[1]
  ELSE d[1] \o <<LF>> \o Join(Tail(d))

\* BaseLineParser._write: what fp holds after fp.write('\n'.join(data)).
Write(fp, d) == fp \o Join(d)

\* Text mode of open(path, 'r', encoding='utf-8'): universal newlines,
\* '\r\n' and '\r' are read as '\n'.
RECURSIVE Universal(_)
Universal(s) ==
  IF Len(s) = 0 THEN <<>>
  ELSE IF s[1] = CR
       THEN IF Len(s) >= 2 /\ s[2] = LF
            THEN <<LF>> \o Universal(SubSeq(s, 3, Len(s)))
            ELSE <<LF>> \o Universal(Tail(s))
       ELSE <<s[1]>> \o Universal(Tail(s))

\* BaseLineParser._open_for_reading: the characters the file object yields.
OpenForReading(c, bin) == IF bin THEN c ELSE Universal(c)

\* f.readlines(): the content cut after every '\n', terminators kept.
RECURSIVE ReadLinesFrom(_, _, _)
ReadLinesFrom(s, cur, acc) ==
  IF Len(s) = 0
  THEN IF Len(cur) = 0 THEN acc ELSE Append(acc, cur)
  ELSE IF s[1] = LF
       THEN ReadLinesFrom(Tail(s), <<>>, Append(acc, Append(cur, LF)))
       ELSE ReadLinesFrom(Tail(s), Append(cur, s[1]), acc)

ReadLines(s) == ReadLinesFrom(s, <<>>, <<>>)

\* The line kept as read, terminator included.
NoStrip(l) == l

\* line.rstrip(): trailing '\r' is removed with the '\n'.
RECURSIVE RStripWhitespace(_)
RStripWhitespace(l) ==
  IF Len(l) > 0 /\ l[Len(l)] \in {LF, CR}
  THEN RStripWhitespace(SubSeq(l, 1, Len(l) - 1))
  ELSE l

\* line.rstrip('\n'): every trailing '\n' is removed.
RECURSIVE RStrip(_)
RStrip(l) ==
  IF Len(l) > 0 /\ l[Len(l)] = LF THEN RStrip(SubSeq(l, 1, Len(l) - 1)) ELSE l

\* LineParser._read: self.data read from a file holding c.
Read(c, bin) ==
  LET ls == ReadLines(OpenForReading(c, bin))
  IN [i \in 1..Len(ls) |-> RStrip(ls[i])]

\* A construction that starts from one empty line when there is no file.
ConstructBlank(f, bin) == IF f = Absent THEN <<<<>>>> ELSE Read(Content(f), bin)

\* LineParser.__init__: self.data after construction on file f.
Construct(f, bin) == IF f = Absent THEN <<>> ELSE Read(Content(f), bin)

\* Python's d[start:] for an integer start of either sign.
SliceFrom(d, start) ==
  LET n == Len(d)
      lo == IF start < 0 THEN Max(n + start, 0) ELSE Min(start, n)
  IN SubSeq(d, lo + 1, n)

\* self.data[:limit], the first records instead of the last.
SliceHead(d, l) == SubSeq(d, 1, Min(l, Len(d)))

\* self.data[-limit:-1], which leaves the last record out.
SliceSkipLast(d, l) ==
  LET n == Len(d)
      lo == IF l > 0 THEN Max(n - l, 0) ELSE Min(0 - l, n)
  IN SubSeq(d, lo + 1, n - 1)

\* self.data[-limit:] of LimitLineParser.save.
Slice(d, l) == SliceFrom(d, 0 - l)

\* The last k records of d.
LastN(d, k) == SubSeq(d, Len(d) - k + 1, Len(d))

\* ------------------------------------------------------------------ state
VARIABLES
  cls,        \* "LineParser" or "LimitLineParser": the class constructed
  limitKey,   \* self._limit: "K", or None (always None for a LineParser)
  binary,     \* self._binary
  data,       \* self.data
  configfile, \* the file at self._configfile: Absent or Present(content)
  configdir,  \* whether self._configdir exists
  config,     \* what config.get(section, option) returns for the limit option
  tmp,        \* the temporary file of the savefile_open scope
  pc,         \* position of the running save(), "idle" between calls
  limit,      \* local limit of the running LimitLineParser.save, else <<>>
  op,         \* history: the last store operation and its outcome, "-" after
              \* the construction, a caller's mutation or a config change
  prevOp,     \* history: "save_ok" when the last save or construction came
              \* right after a save() that wrote the file, else "-"
  changedKey, \* history: the key of the last change notification
  preFile,    \* history: configfile when the last store operation began
  preData,    \* history: self.data when the last store operation began
  preDir,     \* history: configdir when the last store operation began
  lastLimit,  \* history: the limit of the last save() that wrote the file,
              \* while nothing but config changes happened since
  failedAt,   \* history: where the last save() failed ("makedirs", "open",
              \* or the pc of the scope), "-" when it did not
  stale,      \* history: the last save() was called with lastLimit set and
              \* different from the config value
  zeroNote,   \* history: a notification found the limit 0, and it is 0 since
  removed,    \* history: cleanup_file removed the file, and since then no
              \* parser was constructed and at most the last save() wrote it
  savedClean  \* history: a LimitLineParser.save() wrote the file, and since
              \* then the caller did not mutate self.data and no parser was
              \* constructed

vars == <<cls, limitKey, binary, data, configfile, configdir, config, tmp, pc,
          limit, op, prevOp, changedKey, preFile, preData, preDir, lastLimit,
          failedAt,
          stale, zeroNote, removed, savedClean>>

\* Contents of the file found at construction.
InitFiles == {Absent} \cup {Present(c) : c \in SeqsUpTo(Chars, MaxFileLen)}

SaveOutcomes == {"save_ok", "save_err", "save_typeerror", "save_noop"}

\* Whether the last operation was a save() that wrote the file.
JustSaved == IF op = "save_ok" THEN "save_ok" ELSE "-"

\* LimitLineParser.__init__: cleanup_file is connected to config.changed.
Connected == cls = "LimitLineParser" /\ limitKey # None

Init ==
  /\ cls \in {"LineParser", "LimitLineParser"}
  /\ limitKey \in (IF cls = "LimitLineParser" THEN {"K", None} ELSE {None})
  /\ binary \in BOOLEAN
  /\ configfile \in InitFiles
  /\ configdir \in (IF configfile = Absent THEN BOOLEAN ELSE {TRUE})
  /\ config \in (IF limitKey # None THEN LimitValues ELSE {0})
  /\ data = Construct(configfile, binary)
  /\ tmp = Absent
  /\ pc = "idle"
  /\ limit = <<>>
  /\ op = "-"
  /\ prevOp = "-"
  /\ changedKey = "-"
  /\ preFile = configfile
  /\ preData = data
  /\ preDir = configdir
  /\ lastLimit = <<>>
  /\ failedAt = "-"
  /\ stale = FALSE
  /\ zeroNote = "no"
  /\ removed = FALSE
  /\ savedClean = FALSE

\* The removal by cleanup_file is remembered until the operation after the
\* save() that wrote the file again.
StillRemoved == removed /\ op # "save_ok"

\* What a caller's mutation of self.data leaves in the history variables.
Mutated ==
  /\ op' = "-"
  /\ prevOp' = "-"
  /\ changedKey' = "-"
  /\ preFile' = configfile
  /\ preData' = data'
  /\ preDir' = configdir
  /\ lastLimit' = <<>>
  /\ stale' = FALSE
  /\ failedAt' = "-"
  /\ removed' = StillRemoved
  /\ savedClean' = FALSE
  /\ UNCHANGED <<cls, limitKey, binary, configfile, configdir, config, tmp, pc,
                 limit, zeroNote>>

\* The caller appends a record to self.data.
AppendRecord ==
  /\ pc = "idle"
  /\ Len(data) < MaxLines
  /\ \E r \in Records : data' = Append(data, r)
  /\ Mutated

\* The caller removes a record from self.data.
RemoveRecord ==
  /\ pc = "idle"
  /\ \E i \in 1..Len(data) :
       data' = SubSeq(data, 1, i - 1) \o SubSeq(data, i + 1, Len(data))
  /\ Mutated

\* The caller clears self.data.
ClearData ==
  /\ pc = "idle"
  /\ Len(data) > 0
  /\ data' = <<>>
  /\ Mutated

\* The limit option is set to another value in the config.
SetConfig ==
  /\ pc = "idle"
  /\ limitKey # None
  /\ \E v \in LimitValues : v # config /\ config' = v
  /\ op' = "-"
  /\ prevOp' = "-"
  /\ changedKey' = "-"
  /\ preFile' = configfile
  /\ preData' = data
  /\ preDir' = configdir
  /\ stale' = FALSE
  /\ failedAt' = "-"
  /\ zeroNote' = "no"
  /\ removed' = StillRemoved
  /\ UNCHANGED <<cls, limitKey, binary, data, configfile, configdir, tmp, pc,
                 limit, lastLimit, savedClean>>

\* cleanup_file: (section, option) != self._limit returns at once.
CleanupIgnoresNoKey(k) == FALSE
CleanupIgnores(k) == k # limitKey

\* cleanup_file: the test value == 0.
CleanupIsZero(value) == value = 0

\* cleanup_file(section, option): the file it leaves at self._configfile.
CleanupFile(k) ==
  IF CleanupIgnores(k) THEN configfile
  ELSE IF CleanupIsZero(config)
       THEN (IF configfile # Absent THEN Absent ELSE configfile)
       ELSE configfile

\* cleanup_file(section, option): self.data as it leaves it.
CleanupDataCleared(k) ==
  IF k = limitKey /\ config = 0 /\ configfile # Absent THEN <<>> ELSE data
CleanupData(k) == data

\* config.changed is emitted for key k and the connected slot runs.
ConfigChanged ==
  /\ pc = "idle"
  /\ Connected
  /\ \E k \in Keys :
       /\ changedKey' = k
       /\ configfile' = CleanupFile(k)
       /\ data' = CleanupData(k)
       /\ zeroNote' = IF k = limitKey /\ config = 0 /\ zeroNote = "no"
                      THEN (IF configfile # Absent THEN "removed" ELSE "nofile")
                      ELSE zeroNote
  /\ op' = "notify"
  /\ prevOp' = "-"
  /\ preFile' = configfile
  /\ preData' = data
  /\ preDir' = configdir
  /\ lastLimit' = <<>>
  /\ stale' = FALSE
  /\ failedAt' = "-"
  /\ removed' = ((configfile # Absent /\ configfile' = Absent) \/ StillRemoved)
  /\ UNCHANGED <<cls, limitKey, binary, configdir, config, tmp, pc, limit,
                 savedClean>>

\* A new parser of the same class is constructed on the same path and mode.
Reconstruct ==
  /\ pc = "idle"
  /\ data' = Construct(configfile, binary)
  /\ op' = "construct"
  /\ prevOp' = JustSaved
  /\ changedKey' = "-"
  /\ preFile' = configfile
  /\ preData' = data
  /\ preDir' = configdir
  /\ lastLimit' = <<>>
  /\ stale' = FALSE
  /\ failedAt' = "-"
  /\ removed' = FALSE
  /\ savedClean' = FALSE
  /\ UNCHANGED <<cls, limitKey, binary, configfile, configdir, config, tmp, pc,
                 limit, zeroNote>>

\* ------------------------------------------------------------------- save
\* What every step of a running save() leaves alone.
SaveFrame == UNCHANGED <<cls, limitKey, binary, config, changedKey, preFile, preData, preDir,
                         prevOp, stale, zeroNote, removed>>

\* What the call of save() records in the history variables.
SaveCalled ==
  /\ prevOp' = JustSaved
  /\ changedKey' = "-"
  /\ preFile' = configfile
  /\ preData' = data
  /\ preDir' = configdir
  /\ stale' = (lastLimit # <<>> /\ lastLimit # <<config>>)
  /\ lastLimit' = <<>>
  /\ removed' = StillRemoved
  /\ UNCHANGED <<cls, limitKey, binary, config, zeroNote, savedClean>>

\* qtutils.savefile_open, entering the scope: an empty temporary file next
\* to the target.
SavefileOpen == Present(<<>>)

\* os.makedirs when the directory is missing (_prepare_save, and the same
\* lines of LineParser.save), then the entry of the savefile_open scope.
\* makedirs may raise, and so may the open.
PrepareAndOpen ==
  \/ /\ configdir' = TRUE
     /\ tmp' = SavefileOpen
     /\ pc' = "opened"
     /\ op' = "saving"
     /\ failedAt' = "-"
  \/ /\ ~configdir
     /\ UNCHANGED <<configdir, tmp>>
     /\ pc' = "idle"
     /\ op' = "save_err"
     /\ failedAt' = "makedirs"
  \/ /\ configdir' = TRUE
     /\ UNCHANGED tmp
     /\ pc' = "idle"
     /\ op' = "save_err"
     /\ failedAt' = "open"

\* LineParser.save down to the entry of the savefile_open scope.
LineParserSave ==
  /\ pc = "idle"
  /\ cls = "LineParser"
  /\ SaveCalled
  /\ PrepareAndOpen
  /\ UNCHANGED <<data, configfile, limit>>

\* limit = config.get(*self._limit)
ResolveLimitCached == IF lastLimit = <<>> THEN config ELSE lastLimit[1]
ResolveLimit == config

\* A save that never returns early.
SaveReturnsNever(l) == FALSE
\* A save that tests limit < 0 instead.
SaveReturnsOnNegative(l) == l < 0
\* LimitLineParser.save: the test limit == 0 that makes it return at once.
SaveReturnsEarly(l) == l = 0

\* LimitLineParser.save down to the entry of the savefile_open scope:
\* config.get(*None) raises TypeError; a limit of 0 returns at once.
LimitLineParserSave ==
  /\ pc = "idle"
  /\ cls = "LimitLineParser"
  /\ SaveCalled
  /\ IF limitKey = None
     THEN /\ pc' = "idle"
          /\ op' = "save_typeerror"
          /\ failedAt' = "-"
          /\ UNCHANGED <<limit, configdir, tmp>>
     ELSE IF SaveReturnsEarly(ResolveLimit)
          THEN /\ pc' = "idle"
               /\ op' = "save_noop"
               /\ failedAt' = "-"
               /\ UNCHANGED <<limit, configdir, tmp>>
          ELSE /\ PrepareAndOpen
               /\ limit' = IF pc' = "idle" THEN <<>> ELSE <<ResolveLimit>>
  /\ UNCHANGED <<data, configfile>>

\* The records save() hands to _write: self.data, or self.data[-limit:].
SaveData == IF cls = "LineParser" THEN data ELSE Slice(data, limit[1])

\* A write that adds to what the file holds instead of replacing it.
SaveBufferAppending ==
  (IF configfile = Absent THEN <<>> ELSE Content(configfile)) \o Join(SaveData)

\* The characters _write writes to the scope's file object.
SaveBuffer == Write(<<>>, SaveData)

\* A save that writes to self._configfile itself instead of the scope's file.
WriteDataInPlace ==
  /\ pc = "opened"
  /\ \/ /\ configfile' = Present(SaveBuffer)
        /\ pc' = "written"
     \/ /\ Len(SaveBuffer) > 1
        /\ configfile' = Present(SubSeq(SaveBuffer, 1, Len(SaveBuffer) \div 2))
        /\ pc' = "writing"
  /\ UNCHANGED <<data, tmp, configdir, limit, op, lastLimit, failedAt, savedClean>>
  /\ SaveFrame

\* A save that drops from self.data what it has handed to _write.
WriteDataConsuming ==
  /\ pc = "opened"
  /\ tmp' = Present(SaveBuffer)
  /\ pc' = "written"
  /\ data' = <<>>
  /\ UNCHANGED <<configfile, configdir, limit, op, lastLimit, failedAt, savedClean>>
  /\ SaveFrame

\* self._write(f, ...) inside the scope: the buffer reaches the temporary
\* file at once, or its first half does and the rest follows.
WriteData ==
  /\ pc = "opened"
  /\ \/ /\ tmp' = Present(SaveBuffer)
        /\ pc' = "written"
     \/ /\ Len(SaveBuffer) > 1
        /\ tmp' = Present(SubSeq(SaveBuffer, 1, Len(SaveBuffer) \div 2))
        /\ pc' = "writing"
  /\ UNCHANGED <<data, configfile, configdir, limit, op, lastLimit, failedAt, savedClean>>
  /\ SaveFrame

\* The rest of a write that was accepted in two parts.
WriteRest ==
  /\ pc = "writing"
  /\ tmp' = Present(SaveBuffer)
  /\ pc' = "written"
  /\ UNCHANGED <<data, configfile, configdir, limit, op, lastLimit, failedAt, savedClean>>
  /\ SaveFrame

\* savefile_open, normal exit of the scope: the temporary file is renamed
\* over the target.
Commit ==
  /\ pc = "written"
  /\ configfile' = tmp
  /\ tmp' = Absent
  /\ pc' = "idle"
  /\ op' = "save_ok"
  /\ lastLimit' = limit
  /\ savedClean' = (cls = "LimitLineParser")
  /\ limit' = <<>>
  /\ UNCHANGED <<data, configdir, failedAt>>
  /\ SaveFrame

\* savefile_open, an error at a write, the flush or the rename: the
\* temporary file is removed and the error reaches the caller of save().
Abort ==
  /\ pc \in {"opened", "writing", "written"}
  /\ tmp' = Absent
  /\ pc' = "idle"
  /\ op' = "save_err"
  /\ failedAt' = pc
  /\ limit' = <<>>
  /\ UNCHANGED <<data, configfile, configdir, lastLimit, savedClean>>
  /\ SaveFrame

Next ==
  \/ AppendRecord
  \/ RemoveRecord
  \/ ClearData
  \/ SetConfig
  \/ ConfigChanged
  \/ Reconstruct
  \/ LineParserSave
  \/ LimitLineParserSave
  \/ WriteData
  \/ WriteRest
  \/ Commit
  \/ Abort

Spec == Init /\ [][Next]_vars

\* ----------------------------------------------------------------- claims
SaveFailed == op \in {"save_err", "save_typeerror"}

\* The records the last save() serialized, read back from the state after it
\* (the config cannot change while a save runs).
Serialized == IF cls = "LineParser" THEN data ELSE Slice(data, config)

\* C1: a save() that fails, at the makedirs, at the open, at a write or
\* after the temporary file is written and before the rename, leaves the
\* target file as it was before the call (same content, or still absent) and
\* leaves no temporary file.
C1_FailedSaveLeavesFile ==
  SaveFailed => (configfile = preFile /\ tmp = Absent)

\* A save of records that differ from the file's content failed after the
\* temporary file was written, with a file present before.
C1_Witness ==
  /\ op = "save_err"
  /\ failedAt = "written"
  /\ preFile # Absent
  /\ preFile # Present(Join(Serialized))
  /\ Len(Join(Serialized)) > 0

\* C2: at every position of a running save() a reader of the target path
\* sees the content from before the call, and after the save it sees either
\* that content or the whole newly serialized content.
C2_ReaderSeesOldOrNew ==
  /\ pc # "idle" => configfile = preFile
  /\ op \in SaveOutcomes =>
       \/ configfile = preFile
       \/ op = "save_ok" /\ configfile = Present(Join(Serialized))

\* The temporary file holds a proper, non-empty part of the new content
\* while the target still holds a different, older content.
C2_Witness ==
  /\ pc = "writing"
  /\ preFile # Absent
  /\ tmp # Absent
  /\ Len(Content(tmp)) > 0
  /\ Len(Content(tmp)) < Len(SaveBuffer)
  /\ configfile # Present(SaveBuffer)

\* C3: after a successful LimitLineParser.save() under a limit N >= 1 the
\* file holds the newline-join of the last min(N, L) records of self.data,
\* in order, and self.data is what it was before the call.
C3_BoundedRetention ==
  (cls = "LimitLineParser" /\ op = "save_ok" /\ config >= 1) =>
    /\ configfile = Present(Join(LastN(data, Min(config, Len(data)))))
    /\ data = preData

\* A save under a limit of 2 with three records of which the first two
\* differ from the last two.
C3_Witness ==
  /\ cls = "LimitLineParser"
  /\ op = "save_ok"
  /\ config = 2
  /\ Len(data) = 3
  /\ SubSeq(data, 1, 2) # SubSeq(data, 2, 3)
  /\ data[2] # data[3]

\* C4: once a change notification for the limit key has been delivered
\* while the limit is 0, the file is absent, and it stays absent through
\* every save() and every mutation of self.data made while the limit is 0.
C4_ZeroLimitFileStaysAbsent ==
  zeroNote # "no" => configfile = Absent

\* The notification removed an existing file, and a save() of a non-empty
\* self.data has run since, with the limit still 0.
C4_Witness ==
  /\ zeroNote = "removed"
  /\ op = "save_noop"
  /\ Len(data) > 0

NoTerminator(d) == \A i \in 1..Len(d) : \A j \in 1..Len(d[i]) : d[i][j] # LF
NoCarriageReturn(d) == \A i \in 1..Len(d) : \A j \in 1..Len(d[i]) : d[i][j] # CR

\* A LineParser was constructed right after a LineParser.save() that wrote
\* the file; preData is self.data as saved, data is self.data as read back.
RoundTripDone == cls = "LineParser" /\ op = "construct" /\ prevOp = "save_ok"

\* C5, as stated: save() and then a construction on the same path and mode
\* gives back the same records, for every self.data without a terminator in
\* a record, empty records and an empty last record included.
C5_RoundTrip ==
  (RoundTripDone /\ NoTerminator(preData)) => data = preData

\* C5, amended: the same, for every self.data that is empty or has a
\* non-empty last record, and whose records hold no '\n' and, in text mode,
\* no '\r' (which text mode reads as a line end).
C5_RoundTripAmended ==
  ( /\ RoundTripDone
    /\ NoTerminator(preData)
    /\ (binary \/ NoCarriageReturn(preData))
    /\ (Len(preData) = 0 \/ preData[Len(preData)] # <<>>) )
  => data = preData

\* Three records, with an empty one first and in the middle, came back.
C5_Witness ==
  /\ RoundTripDone
  /\ Len(preData) = 3
  /\ preData[1] = <<>>
  /\ preData[2] = <<>>
  /\ preData[3] # <<>>
  /\ data = preData

\* C6: save() of a LimitLineParser built with limit=None raises no error of
\* its own and, when it completes, the file holds all of self.data joined,
\* as after LineParser.save().
C6_UnboundedSavesLikeLineParser ==
  (cls = "LimitLineParser" /\ limitKey = None /\ op \in SaveOutcomes) =>
    /\ op # "save_typeerror"
    /\ op = "save_ok" => configfile = Present(Join(data))

\* C7: LimitLineParser.save() called while the limit is 0 returns at once:
\* no scope is opened, no directory made, and the file and self.data are
\* what they were, whether the file exists or not.
C7_ZeroLimitSaveIsNoop ==
  (Connected /\ config = 0 /\ (op \in SaveOutcomes \/ pc # "idle")) =>
    /\ op = "save_noop"
    /\ pc = "idle"
    /\ configfile = preFile
    /\ configdir = preDir
    /\ data = preData
    /\ tmp = Absent

\* A save() under limit 0 left an existing file that differs from what
\* self.data would give.
C7_Witness ==
  /\ op = "save_noop"
  /\ configfile # Absent
  /\ Len(data) > 0
  /\ configfile # Present(Join(data))

\* C8: cleanup_file leaves self.data, the directory and the file as they
\* were, except that it removes the file when the key is the store's limit
\* key and the limit is 0 at that moment.
C8_CleanupFrame ==
  op = "notify" =>
    /\ data = preData
    /\ configdir = preDir
    /\ tmp = Absent
    /\ configfile = (IF changedKey = limitKey /\ config = 0 THEN Absent ELSE preFile)

\* A notification for another key arrived while the limit was 0 and the
\* file existed.
C8_Witness ==
  /\ op = "notify"
  /\ changedKey # limitKey
  /\ config = 0
  /\ preFile # Absent
  /\ Len(data) > 0

\* C9: a save() called after the config value changed since the last save
\* that wrote the file, with no notification in between, works with the
\* value the config holds at the call: it keeps the last min(N2, L) records
\* for N2 >= 1 and does nothing for N2 = 0.
C9_LimitReadAtCall ==
  (Connected /\ stale) =>
    /\ pc # "idle" => limit = <<config>>
    /\ (op = "save_ok" /\ config >= 1) =>
         configfile = Present(Join(LastN(data, Min(config, Len(data)))))
    /\ (op \in SaveOutcomes /\ config = 0) =>
         (op = "save_noop" /\ configfile = preFile)
    /\ op = "save_noop" => config = 0

\* The limit went from another value to 1 between two saves of at least two
\* records, and the second save wrote a file that differs from the first's.
C9_Witness ==
  /\ Connected
  /\ stale
  /\ op = "save_ok"
  /\ config = 1
  /\ Len(data) >= 2
  /\ configfile # preFile

\* C10: a save() that fails leaves self.data as it was before the call, and
\* so does every position of a running save().
C10_FailedSaveKeepsData ==
  (SaveFailed \/ pc # "idle") => data = preData

\* A save of at least two records failed in the middle of the write.
C10_Witness ==
  /\ op = "save_err"
  /\ failedAt = "writing"
  /\ Len(data) >= 2

\* C11: LimitLineParser.save() called while the limit is negative fails
\* with an error: it does not complete as a save and the file is what it was.
C11_NegativeLimitFailsFast ==
  (Connected /\ config < 0 /\ op \in SaveOutcomes) =>
    /\ op \notin {"save_ok", "save_noop"}
    /\ configfile = preFile

\* C12: a save() called right after a save() that wrote the file, with the
\* same self.data and the same config, leaves the file with the content the
\* first one gave it.
C12_SaveIdempotent ==
  (op \in SaveOutcomes /\ prevOp = "save_ok") =>
    (preFile # Absent /\ configfile = preFile)

\* Two saves in a row wrote a non-empty file.
C12_Witness ==
  /\ op = "save_ok"
  /\ prevOp = "save_ok"
  /\ Len(data) >= 2
  /\ Len(Content(configfile)) >= 2

\* The places of the '\n' in c, their number, and the pieces of c between
\* them (one more than there are '\n').
LFPositions(c) == {i \in 1..Len(c) : c[i] = LF}
CountLF(c) == Cardinality(LFPositions(c))
NthLF(c, n) ==
  IF n = 0 THEN 0
  ELSE IF n > CountLF(c) THEN Len(c) + 1
  ELSE CHOOSE i \in LFPositions(c) :
         Cardinality({j \in LFPositions(c) : j < i}) = n - 1
Pieces(c) ==
  [n \in 1..(CountLF(c) + 1) |-> SubSeq(c, NthLF(c, n - 1) + 1, NthLF(c, n) - 1)]

\* C13: after a LineParser.save() that wrote the file, an empty self.data
\* gives an empty file, and k >= 1 records give a file with k - 1 '\n' whose
\* pieces between the '\n' are the records, in order.
C13_JoinedByNewline ==
  (cls = "LineParser" /\ op = "save_ok") =>
    /\ configfile # Absent
    /\ IF Len(data) = 0
       THEN Content(configfile) = <<>>
       ELSE /\ CountLF(Content(configfile)) = Len(data) - 1
            /\ Pieces(Content(configfile)) = data

\* Three records, the first and the last not empty, were saved.
C13_Witness ==
  /\ cls = "LineParser"
  /\ op = "save_ok"
  /\ Len(data) = 3
  /\ data[1] # <<>>
  /\ data[3] # <<>>

\* The lines of c: its pieces between the '\n', without the empty piece
\* after a final '\n' (or of an empty c).
Lines(c) ==
  LET p == Pieces(c)
  IN IF p[Len(p)] = <<>> THEN SubSeq(p, 1, Len(p) - 1) ELSE p

NoCR(c) == \A i \in 1..Len(c) : c[i] # CR

\* A parser was constructed on an existing file.
ConstructedOnFile == op = "construct" /\ preFile # Absent

\* C14, as stated: in binary and in text mode alike, self.data after a
\* construction on an existing file is the content cut at the '\n' only,
\* every other character kept, '\r' included.
C14_SplitOnNewlineOnly ==
  ConstructedOnFile => data = Lines(Content(preFile))

\* C14, amended: that holds in binary mode, and in text mode for a content
\* without '\r'; in text mode a '\r' ends a line too and no record keeps one.
C14_SplitAmended ==
  ConstructedOnFile =>
    /\ (binary \/ NoCR(Content(preFile))) => data = Lines(Content(preFile))
    /\ ~binary => (NoCarriageReturn(data) /\ NoTerminator(data))

\* A binary-mode construction read two or more lines, one ending in '\r'.
C14_Witness ==
  /\ ConstructedOnFile
  /\ binary
  /\ Len(data) >= 2
  /\ \E i \in 1..Len(data) : Len(data[i]) > 0 /\ data[i][Len(data[i])] = CR

\* C15: a construction on a path with no file gives an empty self.data and
\* creates neither the file nor the directory.
C15_MissingFileGivesEmpty ==
  (op = "construct" /\ preFile = Absent) =>
    /\ data = <<>>
    /\ configfile = Absent
    /\ configdir = preDir
    /\ tmp = Absent

\* A parser was constructed where neither the file nor the directory
\* exists, while the parser before it held records.
C15_Witness ==
  /\ op = "construct"
  /\ preFile = Absent
  /\ ~preDir
  /\ Len(preData) > 0

\* C16: cleanup_file removes the file and leaves self.data alone; the next
\* save() that writes, under a limit N >= 1, creates the file again with the
\* last min(N, L) records of self.data.
C16_RemovalKeepsData ==
  removed =>
    /\ op = "notify" => (data = preData /\ configfile = Absent)
    /\ (op = "save_ok" /\ config >= 1) =>
         /\ preFile = Absent
         /\ data = preData
         /\ configfile = Present(Join(LastN(data, Min(config, Len(data)))))

\* After the removal the limit became 1 and a save() of two or more records
\* wrote the file again.
C16_Witness ==
  /\ removed
  /\ op = "save_ok"
  /\ config = 1
  /\ Len(data) >= 2
  /\ configfile # Absent

\* C17: while the limit is 0 and stays 0, an existing file is left as it is
\* by every step (a construction and every save() included) other than a
\* change notification for the limit key.
C17_OnlyNotificationDeletes ==
  [][ ( /\ Connected
        /\ config = 0
        /\ config' = 0
        /\ configfile # Absent
        /\ ~(op' = "notify" /\ changedKey' = limitKey) )
      => configfile' = configfile ]_vars

\* The limit is 0, no notification for it was delivered, and the file read
\* at construction is still there after a save().
C17_Witness ==
  /\ Connected
  /\ config = 0
  /\ zeroNote = "no"
  /\ op = "save_noop"
  /\ configfile # Absent
  /\ Len(data) > 0
  /\ data = Construct(configfile, binary)

\* The contiguous suffixes of d, the empty one and d itself included.
Suffixes(d) == {SubSeq(d, k + 1, Len(d)) : k \in 0..Len(d)}

\* C18: once a LimitLineParser.save() has written the file, and until the
\* caller mutates self.data, the file is absent or holds the newline-join
\* of a contiguous suffix of self.data, whatever saves, limit changes and
\* notifications follow.
C18_FileIsSuffix ==
  (cls = "LimitLineParser" /\ savedClean) =>
    \/ configfile = Absent
    \/ \E t \in Suffixes(data) : configfile = Present(Join(t))

\* A save() failed after the limit changed, and the file still holds the
\* last two of three records, which no other suffix gives.
C18_Witness ==
  /\ cls = "LimitLineParser"
  /\ savedClean
  /\ stale
  /\ op = "save_err"
  /\ Len(data) = 3
  /\ configfile = Present(Join(LastN(data, 2)))
  /\ configfile # Present(Join(data))
  /\ configfile # Present(Join(LastN(data, 1)))

====
